---- MODULE Spec2Model ----
(***************************************************************************)
(* A model of the MedLaw document pipeline:                                *)
(*   - EmbeddingIndexer (pipeline/embed-and-vec-search/embed_and_index.py) *)
(*   - the chunker, the extractor's text cleaning and the ingestion CLI    *)
(*     (pipeline/ingestion/*.py)                                           *)
(* Python dicts are functions from field names to values, Python object    *)
(* references are keys of `heap`, None-able objects are records with a     *)
(* `present`/`exists` flag.                                                *)
(***************************************************************************)
EXTENDS Integers, Sequences, FiniteSets, TLC

VARIABLES
    index,           \* EmbeddingIndexer.index: the FAISS index or None
    chunk_metadata,  \* EmbeddingIndexer.chunk_metadata: list of references to chunk dicts
    heap,            \* the dict objects alive in the process: reference -> dict
    files,           \* <index_path>/faiss.index and <index_path>/metadata.pkl
    results,         \* the list last returned by search (references to dicts)
    last,            \* the last call on the indexer: its name, arguments and return value
    saved,           \* index and metadata content at the last completed save_index
    ch,              \* a use of the chunker: its inputs, its position and its results
    cli,             \* a run of the ingestion CLI: its position, locals, output and exit status
    storage,         \* the chunk files the run has written: chunk number -> chunk
    chunks_dir,      \* the chunks directory handed to load_chunks
    ld               \* a call of load_chunks: its position and what it returned

ivars == <<index, chunk_metadata, heap, files, results, last, saved>>

cvars == <<cli, storage>>
lvars == <<chunks_dir, ld>>

vars == <<index, chunk_metadata, heap, files, results, last, saved, ch, cli, storage,
          chunks_dir, ld>>

----------------------------------------------------------------------------
(* Bounds of the model *)

MaxChunks == 2      \* longest chunk list handed to build_index
MaxK == 2           \* largest k handed to search
MaxTextLen == 7     \* longest text (in tokens) handed to chunk_text directly
MaxSize == 3        \* largest chunk_size (and overlap) handed to chunk_text
MaxPages == 2       \* most pages of a PDF
MaxPageWords == 2   \* most words on one page of a PDF
MaxRun == 11        \* most files chunk_0.json .. chunk_{n-1}.json in a document folder
MaxFiles == 2       \* most files in a document folder of arbitrary content

----------------------------------------------------------------------------
(* Python helpers *)

Min(a, b) == IF a <= b THEN a ELSE b
Max(a, b) == IF a >= b THEN a ELSE b

EmptyDict == [x \in {} |-> "None"]

\* d[k] = v on a dict
SetItem(d, k, v) == [x \in (DOMAIN d) \cup {k} |-> IF x = k THEN v ELSE d[x]]

\* d.get(k)
DictGet(d, k) == IF k \in DOMAIN d THEN d[k] ELSE "None"

\* the n smallest references not in use
RECURSIVE FreshRefs(_, _)
FreshRefs(used, n) ==
    IF n = 0 THEN <<>>
    ELSE LET r == CHOOSE x \in 1..(Cardinality(used) + 1) : x \notin used
         IN <<r>> \o FreshRefs(used \cup {r}, n - 1)

Range(s) == {s[i] : i \in DOMAIN s}

\* reference counting: only the objects reachable from the roots stay alive
Collect(h, roots) == [o \in roots |-> h[o]]

\* References are opaque: after each call the live objects are renumbered in the
\* order in which the metadata list and then the result list mention them.
RECURSIVE Distinct(_, _)
Distinct(s, acc) ==
    IF s = <<>> THEN acc
    ELSE Distinct(Tail(s), IF Head(s) \in Range(acc) THEN acc ELSE Append(acc, Head(s)))
IndexOf(s, o) == CHOOSE i \in 1..Len(s) : s[i] = o
Renumber(h, meta, res) ==
    LET live == Distinct(meta \o res, <<>>)
    IN [heap |-> [r \in 1..Len(live) |-> h[live[r]]],
        meta |-> [i \in 1..Len(meta) |-> IndexOf(live, meta[i])],
        res |-> [i \in 1..Len(res) |-> IndexOf(live, res[i])]]

\* the dicts a list of references points to
Deref(h, refs) == [i \in 1..Len(refs) |-> h[refs[i]]]

----------------------------------------------------------------------------
(* The sentence-embedding model and the FAISS flat inner-product index.    *)
(* A vector is a direction (one of 8, 45 degrees apart) and a magnitude;   *)
(* the inner product of two vectors is |u||v|cos(angle), scaled by 1000.   *)

Cos8(d) ==
    CASE d = 0 -> 1000 [] d = 1 -> 707 [] d = 2 -> 0 [] d = 3 -> -707
      [] d = 4 -> -1000 [] d = 5 -> -707 [] d = 6 -> 0 [] d = 7 -> 707

\* SentenceTransformer.encode on one text (deterministic, not normalized)
Encode(text) ==
    CASE text = "t1" -> [dir |-> 0, mag |-> 2]
      [] text = "t2" -> [dir |-> 1, mag |-> 3]
      [] text = "t3" -> [dir |-> 3, mag |-> 1]
      [] text = "q1" -> [dir |-> 0, mag |-> 2]
      [] text = "q2" -> [dir |-> 2, mag |-> 3]
      [] OTHER -> [dir |-> 4, mag |-> 1]

\* faiss.normalize_L2 on one row
normalize_L2(v) == [dir |-> v.dir, mag |-> 1]

InnerProduct(u, v) == u.mag * v.mag * Cos8((u.dir - v.dir) % 8)

\* IndexFlatIP.search(q, n): the n stored positions (0-based) of largest inner
\* product with q, by descending score; equal scores come in any order
IndexSearch(xb, q, n) ==
    LET sc(i) == InnerProduct(xb[i + 1], q)
        pos == 0..(Len(xb) - 1)
    IN { [j \in 1..n |-> [idx |-> c[j], score |-> sc(c[j])]] :
           c \in { c \in [1..n -> pos] :
                     /\ \A a, b \in 1..n : a < b => c[a] # c[b] /\ sc(c[a]) >= sc(c[b])
                     /\ \A p \in pos : (\A a \in 1..n : c[a] # p) =>
                                          \A a \in 1..n : sc(c[a]) >= sc(p) } }

----------------------------------------------------------------------------
(* Inputs *)

\* chunk records as load_chunks returns them, in load order
ChunkPool ==
    << [doc_id |-> "d1", chunk_index |-> 0, text |-> "t1", chunk_id |-> "d1_chunk_0"],
       [doc_id |-> "d2", chunk_index |-> 0, text |-> "t2", chunk_id |-> "d2_chunk_0"],
       [doc_id |-> "d2", chunk_index |-> 1, text |-> "t3", chunk_id |-> "d2_chunk_1"] >>

\* the chunk lists handed to build_index: the pool's chunks in load order, some
\* left out, at most MaxChunks long
ChunkLists ==
    UNION { { [i \in 1..n |-> ChunkPool[p[i]]] :
                p \in { p \in [1..n -> 1..Len(ChunkPool)] :
                          \A a, b \in 1..n : a < b => p[a] < p[b] } } :
              n \in 0..MaxChunks }

Queries == {"q1", "q2"}

\* the filters argument of search: None, or a dict
NoFilters == [none |-> TRUE, d |-> EmptyDict]
FilterArgs ==
    { NoFilters,
      [none |-> FALSE, d |-> EmptyDict],
      [none |-> FALSE, d |-> [doc_id |-> "d2"]],
      [none |-> FALSE, d |-> [doc_id |-> "wrong_doc"]],
      [none |-> FALSE, d |-> [source |-> "a.pdf"]] }

\* Python truthiness of the filters argument
Truthy(filters) == ~filters.none /\ DOMAIN filters.d # {}

NoIndex == [present |-> FALSE, xb |-> <<>>]
NoFile == [exists |-> FALSE, data |-> <<>>]
NoCall == [op |-> "init", q |-> "None", k |-> 0, filters |-> NoFilters,
           fresh |-> TRUE, ret |-> FALSE]
NoSave == [done |-> FALSE, ntotal |-> 0, meta |-> <<>>, xb |-> <<>>]

----------------------------------------------------------------------------
(* EmbeddingIndexer *)

\* the state of the process after a call: the live dicts, the metadata list
\* and the list the caller holds
Commit(h, meta, res) ==
    LET n == Renumber(h, meta, res)
    IN /\ heap' = n.heap
       /\ chunk_metadata' = n.meta
       /\ results' = n.res

\* __init__: a fresh instance on the same index directory
Construct ==
    /\ index' = NoIndex
    /\ Commit(heap, <<>>, <<>>)
    /\ last' = [NoCall EXCEPT !.op = "construct"]
    /\ UNCHANGED <<files, saved, ch, cvars, lvars>>

\* embed_chunks(chunks)
embed_chunks(h, chunks) == [i \in 1..Len(chunks) |-> Encode(h[chunks[i]]["text"])]

\* the metadata list build_index leaves: self.chunk_metadata = chunks
BuildMetadataExtend(old, chunks) == old \o chunks
BuildMetadata(old, chunks) == chunks

\* build_index(embeddings, chunks), called as the pipeline does, with
\* embeddings = embed_chunks(chunks) of freshly loaded chunk dicts
build_index(cl) ==
    LET refs == FreshRefs(DOMAIN heap, Len(cl))
        h1 == [o \in (DOMAIN heap) \cup Range(refs) |->
                 IF o \in DOMAIN heap THEN heap[o]
                 ELSE cl[CHOOSE i \in 1..Len(refs) : refs[i] = o]]
        embeddings == embed_chunks(h1, refs)
    IN /\ IF Len(embeddings) = 0
          THEN /\ UNCHANGED index
               /\ Commit(h1, chunk_metadata, results)
          ELSE /\ index' = [present |-> TRUE,
                            xb |-> [i \in 1..Len(embeddings) |-> normalize_L2(embeddings[i])]]
               /\ Commit(h1, BuildMetadata(chunk_metadata, refs), results)
       /\ last' = [NoCall EXCEPT !.op = "build_index", !.fresh = FALSE]
       /\ UNCHANGED <<files, saved, ch, cvars, lvars>>

BuildIndex == \E cl \in ChunkLists : build_index(cl)

\* pickle.dump of the metadata list: the dicts' contents, by value
PickleDumpNothing(h, meta) == <<>>
PickleDump(h, meta) == Deref(h, meta)

\* save_index()
SaveIndex ==
    /\ IF ~index.present
       THEN UNCHANGED <<files, saved>>
       ELSE /\ files' = [index |-> [exists |-> TRUE, data |-> index.xb],
                         meta |-> [exists |-> TRUE, data |-> PickleDump(heap, chunk_metadata)]]
            /\ saved' = [done |-> TRUE, ntotal |-> Len(index.xb),
                         meta |-> Deref(heap, chunk_metadata), xb |-> index.xb]
    /\ last' = [NoCall EXCEPT !.op = "save_index", !.fresh = FALSE]
    /\ UNCHANGED <<index, chunk_metadata, heap, results, ch, cvars, lvars>>

\* load_index()
LoadIndex ==
    IF ~files.index.exists
    THEN /\ last' = [NoCall EXCEPT !.op = "load_index", !.ret = FALSE,
                                   !.fresh = (last.op = "construct")]
         /\ UNCHANGED <<index, chunk_metadata, heap, files, results, saved, ch, cvars, lvars>>
    ELSE \* open(metadata_file) raises when metadata.pkl is missing
         /\ files.meta.exists
         /\ LET data == files.meta.data
                refs == FreshRefs(DOMAIN heap, Len(data))
                h1 == [o \in (DOMAIN heap) \cup Range(refs) |->
                         IF o \in DOMAIN heap THEN heap[o]
                         ELSE data[CHOOSE i \in 1..Len(refs) : refs[i] = o]]
            IN /\ index' = [present |-> TRUE, xb |-> files.index.data]
               /\ Commit(h1, refs, results)
         /\ last' = [NoCall EXCEPT !.op = "load_index", !.ret = TRUE,
                                   !.fresh = (last.op = "construct")]
         /\ UNCHANGED <<files, saved, ch, cvars, lvars>>

\* the files a save_index leaves that fails after faiss.write_index and before
\* metadata.pkl is opened for writing
WriteNothing(fs, xb) == fs
WriteIndexOnly(fs, xb) == [fs EXCEPT !.index = [exists |-> TRUE, data |-> xb]]

\* save_index() failing between its two writes (process killed, metadata.pkl
\* not writable): the exception, if any, leaves the instance as it was
SaveIndexFails ==
    /\ index.present
    /\ files' = WriteIndexOnly(files, index.xb)
    /\ last' = [NoCall EXCEPT !.op = "save_index_failed", !.fresh = FALSE]
    /\ UNCHANGED <<index, chunk_metadata, heap, results, saved, ch, cvars, lvars>>

\* load_index() with faiss.index on disk and no metadata.pkl: self.index is
\* assigned, then open(metadata_file) raises
LoadIndexFails ==
    /\ files.index.exists
    /\ ~files.meta.exists
    /\ index' = [present |-> TRUE, xb |-> files.index.data]
    /\ last' = [NoCall EXCEPT !.op = "load_index_raised", !.fresh = FALSE]
    /\ UNCHANGED <<chunk_metadata, heap, files, results, saved, ch, cvars, lvars>>

\* chunk = self.chunk_metadata[idx].copy()
CopyChunkAlias(h, ref) == [h |-> h, ref |-> ref]
CopyChunk(h, ref) ==
    LET r == FreshRefs(DOMAIN h, 1)[1]
    IN [h |-> [o \in (DOMAIN h) \cup {r} |-> IF o = r THEN h[ref] ELSE h[o]], ref |-> r]

\* search_k = k * 3 if filters else k
SearchKNoOversample(k, filters) == k
SearchK(k, filters) == IF Truthy(filters) THEN k * 3 ELSE k

\* the loop of search over the candidates
RECURSIVE SearchLoop(_, _, _, _, _, _)
SearchLoop(h, res, cands, k, filters, meta) ==
    IF cands = <<>> THEN [h |-> h, res |-> res]
    ELSE LET idx == Head(cands).idx
             score == Head(cands).score
         IN IF idx < 0 \/ idx >= Len(meta)
            THEN SearchLoop(h, res, Tail(cands), k, filters, meta)
            ELSE LET cp == CopyChunk(h, meta[idx + 1])
                     h2 == [cp.h EXCEPT ![cp.ref] = SetItem(@, "score", score)]
                 IN IF /\ Truthy(filters)
                       /\ "doc_id" \in DOMAIN filters.d
                       /\ DictGet(h2[cp.ref], "doc_id") # filters.d["doc_id"]
                    THEN SearchLoop(h2, res, Tail(cands), k, filters, meta)
                    ELSE LET res2 == Append(res, cp.ref)
                         IN IF Len(res2) >= k
                            THEN [h |-> h2, res |-> res2]
                            ELSE SearchLoop(h2, res2, Tail(cands), k, filters, meta)

\* search(query_text, k, filters)
search(q, k, filters) ==
    /\ IF ~index.present \/ Len(index.xb) = 0
       THEN Commit(heap, chunk_metadata, <<>>)
       ELSE LET query_embedding == normalize_L2(Encode(q))
                search_k == SearchK(k, filters)
            IN \E cands \in IndexSearch(index.xb, query_embedding,
                                        Min(search_k, Len(index.xb))) :
                 LET out == SearchLoop(heap, <<>>, cands, k, filters, chunk_metadata)
                 IN Commit(out.h, chunk_metadata, out.res)
    /\ last' = [NoCall EXCEPT !.op = "search", !.q = q, !.k = k, !.filters = filters,
                              !.fresh = FALSE]
    /\ UNCHANGED <<index, files, saved, ch, cvars, lvars>>

Search == \E q \in Queries, k \in 1..MaxK, filters \in FilterArgs : search(q, k, filters)

\* the caller changes a field of a dict that search returned
MutateResult ==
    \E r \in 1..Len(results) :
        /\ heap[results[r]]["text"] # "edited"
        /\ heap' = [heap EXCEPT ![results[r]] = SetItem(@, "text", "edited")]
        /\ last' = [NoCall EXCEPT !.op = "mutate", !.fresh = FALSE]
        /\ UNCHANGED <<index, chunk_metadata, files, results, saved, ch, cvars, lvars>>

IndexerInit ==
    /\ index = NoIndex
    /\ chunk_metadata = <<>>
    /\ heap = Collect(EmptyDict, {})
    /\ files = [index |-> NoFile, meta |-> NoFile]
    /\ results = <<>>
    /\ last = NoCall
    /\ saved = NoSave

----------------------------------------------------------------------------
(* Texts.  A text is a sequence of tokens: a word ("a", "b": a maximal run   *)
(* of non-whitespace characters) or " " (one whitespace character).  Two    *)
(* words are never adjacent: they would be one word.                        *)

Words == {"a", "b"}
IsWord(tok) == tok # " "

WellFormed(t) == \A i \in 1..(Len(t) - 1) : ~(IsWord(t[i]) /\ IsWord(t[i + 1]))

\* Optional values: None and a value
None == <<>>
Some(x) == <<x>>

\* " ".join(parts)
Join(parts) ==
    [i \in 1..(2 * Len(parts) - 1) |-> IF i % 2 = 1 THEN parts[(i + 1) \div 2] ELSE " "]

\* concatenation of a list of token sequences
RECURSIVE Flatten(_)
Flatten(ss) == IF ss = <<>> THEN <<>> ELSE Head(ss) \o Flatten(Tail(ss))

\* words[a:b] for 0 <= a
PySlice(s, a, b) == SubSeq(s, a + 1, Min(b, Len(s)))

----------------------------------------------------------------------------
(* extractor.py *)

\* clean_text: \r to space, every whitespace run to one space, strip
clean_text(text) ==
    IF text = <<>> THEN <<>>
    ELSE LET at == [i \in 1..Len(text) |-> [i |-> i, tok |-> text[i]]]
             first(e) == IsWord(e.tok) \/ e.i = 1 \/ IsWord(text[e.i - 1])
             kept == SelectSeq(at, first)
             collapsed == [j \in 1..Len(kept) |-> kept[j].tok]
             lo == IF IsWord(collapsed[1]) THEN 1 ELSE 2
             hi == IF IsWord(collapsed[Len(collapsed)]) THEN Len(collapsed)
                   ELSE Len(collapsed) - 1
         IN SubSeq(collapsed, lo, hi)

\* the pages of a PDF: what page.extract_text() and the OCR of the page give
\* _extract_pdf: (full_text, page_texts)
page_text(page) ==
    LET text == clean_text(page.text)
    IN IF text = <<>> THEN clean_text(page.ocr) ELSE text

\* " ".join(full_text_parts), on texts
JoinTexts(parts) ==
    Flatten([i \in 1..(2 * Len(parts) - 1) |->
               IF i % 2 = 1 THEN parts[(i + 1) \div 2] ELSE <<" ">>])

extract_pdf(pdf) ==
    LET page_texts == [idx \in 1..Len(pdf) |-> [page |-> idx, text |-> page_text(pdf[idx])]]
        full_text_parts == [idx \in 1..Len(pdf) |-> page_texts[idx].text]
    IN [full_text |-> clean_text(JoinTexts(full_text_parts)), page_texts |-> page_texts]

----------------------------------------------------------------------------
(* chunker.py *)

\* split_words
split_words(text) == IF text = <<>> THEN <<>> ELSE SelectSeq(text, IsWord)

\* build_page_ranges
RECURSIVE PageRangesFrom(_, _, _)
PageRangesFrom(page_texts, offset, ranges) ==
    IF page_texts = <<>> THEN ranges
    ELSE LET entry == Head(page_texts)
             length == Len(split_words(entry.text))
             start == offset
             end == offset + length
         IN PageRangesFrom(Tail(page_texts), end,
                           Append(ranges, [page |-> entry.page, start_offset |-> start,
                                           end_offset |-> end]))

build_page_ranges(page_texts) == PageRangesFrom(page_texts, 0, <<>>)

\* _find_page; page_ranges is None or a list
NoRanges == [none |-> TRUE, list |-> <<>>]

find_page_inclusive(page_ranges, start_offset) ==
    IF page_ranges.none \/ page_ranges.list = <<>> THEN None
    ELSE LET rs == page_ranges.list
             hits == {i \in 1..Len(rs) :
                        rs[i].start_offset <= start_offset /\ start_offset <= rs[i].end_offset}
         IN IF hits # {}
            THEN Some(rs[CHOOSE i \in hits : \A j \in hits : i <= j].page)
            ELSE Some(rs[Len(rs)].page)

find_page(page_ranges, start_offset) ==
    IF page_ranges.none \/ page_ranges.list = <<>> THEN None
    ELSE LET rs == page_ranges.list
             hits == {i \in 1..Len(rs) :
                        rs[i].start_offset <= start_offset /\ start_offset < rs[i].end_offset}
         IN IF hits # {}
            THEN Some(rs[CHOOSE i \in hits : \A j \in hits : i <= j].page)
            ELSE Some(rs[Len(rs)].page)

\* step = max(chunk_size - overlap, 1)
StepNoOverlap(chunk_size, overlap) == Max(chunk_size, 1)
StepPastOverlap(chunk_size, overlap) == Max(chunk_size + overlap, 1)
Step(chunk_size, overlap) == Max(chunk_size - overlap, 1)

\* end = min(start + chunk_size, total)
ChunkEndUnclamped(start, chunk_size, total) == start + chunk_size
ChunkEnd(start, chunk_size, total) == Min(start + chunk_size, total)

\* the while loop of chunk_text
RECURSIVE ChunkLoop(_, _, _, _, _)
ChunkLoop(words, start, idx, chunks, arg) ==
    IF ~(start < Len(words)) THEN chunks
    ELSE LET end == ChunkEnd(start, arg.chunk_size, Len(words))
             chunk_words == PySlice(words, start, end)
         IN IF chunk_words = <<>> THEN chunks
            ELSE ChunkLoop(words, start + Step(arg.chunk_size, arg.overlap), idx + 1,
                           Append(chunks,
                                  [doc_id |-> arg.doc_id,
                                   chunk_index |-> idx,
                                   text |-> Join(chunk_words),
                                   start_offset |-> start,
                                   end_offset |-> end,
                                   source |-> arg.source,
                                   page |-> find_page(arg.page_ranges, start)]),
                           arg)

\* chunk_text(text, doc_id, chunk_size, overlap, source, page_ranges)
chunk_text(text, doc_id, chunk_size, overlap, source, page_ranges) ==
    LET words == split_words(text)
    IN IF words = <<>> THEN <<>>
       ELSE ChunkLoop(words, 0, 0, <<>>,
                      [doc_id |-> doc_id, chunk_size |-> chunk_size, overlap |-> overlap,
                       source |-> source, page_ranges |-> page_ranges])

----------------------------------------------------------------------------
(* Uses of the chunker: chunk_text on a text, and on the text and the page  *)
(* ranges of an extracted PDF.                                              *)

Texts == UNION { { t \in [1..n -> Words \cup {" "}] : WellFormed(t) } : n \in 0..MaxTextLen }

\* n words, single-spaced; and the same with whitespace before, after and doubled
Tight(n) == Join([j \in 1..n |-> IF j % 2 = 1 THEN "a" ELSE "b"])
Padded(n) ==
    [i \in 1..(3 * n + 1) |->
       IF i % 3 = 2 THEN (IF ((i + 1) \div 3) % 2 = 1 THEN "a" ELSE "b") ELSE " "]

Pages ==
    { [text |-> Tight(n), ocr |-> <<>>] : n \in 1..MaxPageWords }
      \cup { [text |-> Padded(n), ocr |-> <<>>] : n \in 1..MaxPageWords }
      \cup { [text |-> <<>>, ocr |-> Padded(n)] : n \in 0..MaxPageWords }

Pdfs == UNION { [1..n -> Pages] : n \in 0..MaxPages }

NoChunking == [pc |-> "idle", pdf |-> <<>>, text |-> <<>>, chunk_size |-> 0, overlap |-> 0,
               page_texts |-> <<>>, page_ranges |-> NoRanges, chunks |-> <<>>]

ChunkerInit ==
    \E chunk_size \in 0..MaxSize, overlap \in (-1)..MaxSize :
        \/ \E text \in Texts :
               ch = [NoChunking EXCEPT !.pc = "text", !.text = text,
                                       !.chunk_size = chunk_size, !.overlap = overlap]
        \/ \E pdf \in Pdfs :
               ch = [NoChunking EXCEPT !.pc = "pdf", !.pdf = pdf,
                                       !.chunk_size = chunk_size, !.overlap = overlap]

\* full_text, page_texts = extract_text(file_path)
ExtractPdf ==
    /\ ch.pc = "pdf"
    /\ LET out == extract_pdf(ch.pdf)
       IN ch' = [ch EXCEPT !.pc = "extracted", !.text = out.full_text,
                           !.page_texts = out.page_texts]
    /\ UNCHANGED <<ivars, cvars, lvars>>

\* page_ranges = build_page_ranges(page_texts)
BuildPageRanges ==
    /\ ch.pc = "extracted"
    /\ ch' = [ch EXCEPT !.pc = "ranged",
                        !.page_ranges = [none |-> FALSE, list |-> build_page_ranges(ch.page_texts)]]
    /\ UNCHANGED <<ivars, cvars, lvars>>

\* chunks = chunk_text(...)
ChunkText ==
    /\ ch.pc \in {"text", "ranged"}
    /\ ch' = [ch EXCEPT !.pc = IF ch.pc = "text" THEN "chunked" ELSE "chunked_pdf",
                        !.chunks = chunk_text(ch.text, "doc", ch.chunk_size, ch.overlap,
                                              None, ch.page_ranges)]
    /\ UNCHANGED <<ivars, cvars, lvars>>

----------------------------------------------------------------------------
(* extractor.py: detect_file_type and extract_text; ingest.py: main *)

\* str.lower on the suffixes used here
Lower(suffix) == IF suffix = ".PDF" THEN ".pdf" ELSE suffix

\* detect_file_type; "ValueError" for an unsupported extension
detect_file_type(suffix) ==
    LET sfx == Lower(suffix)
    IN CASE sfx = ".pdf" -> "pdf"
         [] sfx = ".docx" -> "docx"
         [] sfx = ".txt" -> "txt"
         [] sfx \in {".png", ".jpg", ".jpeg", ".tif", ".tiff", ".bmp", ".webp"} -> "image"
         [] OTHER -> "ValueError"

\* extract_text on a readable file: (full_text, page_texts)
extract_text(file) ==
    IF detect_file_type(file.suffix) = "pdf" THEN extract_pdf(file.pdf)
    ELSE LET text == clean_text(file.raw)
         IN [full_text |-> text, page_texts |-> <<[page |-> 1, text |-> text]>>]

\* chunk_text's defaults
DefaultChunkSize == 500
DefaultOverlap == 50

\* the files the CLI is run on
CliFiles ==
    { [exists |-> FALSE, suffix |-> ".pdf", pdf |-> <<>>, raw |-> <<>>] }
      \cup { [exists |-> TRUE, suffix |-> sfx, pdf |-> pdf, raw |-> <<>>] :
               sfx \in {".pdf", ".PDF"}, pdf \in Pdfs }
      \cup { [exists |-> TRUE, suffix |-> ".txt", pdf |-> <<>>, raw |-> raw] :
               raw \in {<<>>, Padded(2), Tight(940), Tight(1200)} }
      \cup { [exists |-> TRUE, suffix |-> sfx, pdf |-> <<>>, raw |-> Padded(1)] :
               sfx \in {".docx", ".png", ".jpeg", ".xyz"} }

NoStorage == [x \in {} |-> None]

NoRun == [pc |-> "idle", file |-> [exists |-> FALSE, suffix |-> "", pdf |-> <<>>, raw |-> <<>>],
          doc_id |-> None, full_text |-> <<>>, page_texts |-> <<>>, page_ranges |-> NoRanges,
          chunks |-> <<>>, idx |-> 0, stdout |-> <<>>, exit |-> None, failed |-> "no"]

CliInit ==
    /\ \E file \in CliFiles : cli = [NoRun EXCEPT !.pc = "start", !.file = file]
    /\ storage = NoStorage

\* if not file_path.exists(): print; sys.exit(1)
CheckPath ==
    /\ cli.pc = "start"
    /\ IF ~cli.file.exists
       THEN cli' = [cli EXCEPT !.pc = "exited",
                               !.stdout = Append(@, "[error] File not found"),
                               !.exit = Some(1),
                               !.failed = "not_found"]
       ELSE cli' = [cli EXCEPT !.pc = "try"]
    /\ UNCHANGED <<ivars, ch, storage, lvars>>

\* except Exception as exc: print; sys.exit(1)
OnFailureExitZero(c, step) ==
    [c EXCEPT !.pc = "exited", !.stdout = Append(@, "[error] Extraction failed"),
              !.exit = Some(0), !.failed = step]
OnFailure(c, step) ==
    [c EXCEPT !.pc = "exited", !.stdout = Append(@, "[error] Extraction failed"),
              !.exit = Some(1), !.failed = step]

\* doc_id = generate_doc_id()
GenerateDocId ==
    /\ cli.pc = "try"
    /\ cli' = [cli EXCEPT !.pc = "id", !.doc_id = Some("doc1")]
    /\ UNCHANGED <<ivars, ch, storage, lvars>>

\* full_text, page_texts = extract_text(file_path)
ExtractText ==
    /\ cli.pc = "id"
    /\ detect_file_type(cli.file.suffix) # "ValueError"
    /\ LET out == extract_text(cli.file)
       IN cli' = [cli EXCEPT !.pc = "extracted", !.full_text = out.full_text,
                             !.page_texts = out.page_texts]
    /\ UNCHANGED <<ivars, ch, storage, lvars>>

\* extract_text raises: unsupported extension, corrupt file, OCR engine missing
ExtractTextFails ==
    /\ cli.pc = "id"
    /\ cli' = OnFailure(cli, "extract")
    /\ UNCHANGED <<ivars, ch, storage, lvars>>

\* page_ranges = build_page_ranges(page_texts)
BuildRangesCli ==
    /\ cli.pc = "extracted"
    /\ cli' = [cli EXCEPT !.pc = "ranged",
                          !.page_ranges = [none |-> FALSE,
                                           list |-> build_page_ranges(cli.page_texts)]]
    /\ UNCHANGED <<ivars, ch, storage, lvars>>

BuildRangesFails ==
    /\ cli.pc = "extracted"
    /\ cli' = OnFailure(cli, "ranges")
    /\ UNCHANGED <<ivars, ch, storage, lvars>>

\* chunks = chunk_text(full_text, doc_id, source=file_path.name, page_ranges=page_ranges)
ChunkTextCli ==
    /\ cli.pc = "ranged"
    /\ cli' = [cli EXCEPT !.pc = "saving", !.idx = 0,
                          !.chunks = chunk_text(cli.full_text, cli.doc_id[1], DefaultChunkSize,
                                                DefaultOverlap, Some(cli.file.suffix),
                                                cli.page_ranges)]
    /\ UNCHANGED <<ivars, ch, storage, lvars>>

ChunkTextFails ==
    /\ cli.pc = "ranged"
    /\ cli' = OnFailure(cli, "chunk")
    /\ UNCHANGED <<ivars, ch, storage, lvars>>

\* one turn of: for idx, chunk in enumerate(chunks): save_chunk(doc_id, idx, chunk)
SaveChunk ==
    /\ cli.pc = "saving"
    /\ cli.idx < Len(cli.chunks)
    /\ storage' = [i \in (DOMAIN storage) \cup {cli.idx} |->
                     IF i = cli.idx THEN cli.chunks[cli.idx + 1] ELSE storage[i]]
    /\ cli' = [cli EXCEPT !.idx = @ + 1]
    /\ UNCHANGED <<ivars, ch, lvars>>

\* save_chunk raises (disk full, no permission): nothing catches it
SaveChunkFails ==
    /\ cli.pc = "saving"
    /\ cli.idx < Len(cli.chunks)
    /\ cli' = [cli EXCEPT !.pc = "crashed", !.exit = Some(1), !.failed = "save"]
    /\ UNCHANGED <<ivars, ch, storage, lvars>>

\* the summary, and the normal end of the process
Summary ==
    /\ cli.pc = "saving"
    /\ cli.idx = Len(cli.chunks)
    /\ cli' = [cli EXCEPT !.pc = "done", !.stdout = Append(@, "Ingestion summary"),
                          !.exit = Some(0)]
    /\ UNCHANGED <<ivars, ch, storage, lvars>>

----------------------------------------------------------------------------
(* EmbeddingIndexer.load_chunks.  A file chunk_<suffix>.json of a document   *)
(* folder is its suffix (a string of characters), whether it can be opened,  *)
(* whether it holds JSON, and the dict the JSON is.                          *)

DigitChars == <<"0", "1", "2", "3", "4", "5", "6", "7", "8", "9">>

\* str(n), n >= 0
RECURSIVE Digits(_)
Digits(n) == IF n < 10 THEN <<DigitChars[n + 1]>>
             ELSE Digits(n \div 10) \o <<DigitChars[(n % 10) + 1]>>

\* int(s) on a string of characters; ok is false where int raises ValueError
RECURSIVE ParseFrom(_, _)
ParseFrom(s, acc) ==
    IF s = <<>> THEN [ok |-> TRUE, val |-> acc]
    ELSE IF \E d \in 1..10 : DigitChars[d] = Head(s)
         THEN ParseFrom(Tail(s), 10 * acc + (CHOOSE d \in 1..10 : DigitChars[d] = Head(s)) - 1)
         ELSE [ok |-> FALSE, val |-> 0]
ParseInt(s) == IF s = <<>> THEN [ok |-> FALSE, val |-> 0] ELSE ParseFrom(s, 0)

\* f"{doc_id}_chunk_{chunk_index}"
ChunkId(doc_id, chunk_index) == <<doc_id, "_chunk_">> \o Digits(chunk_index)

\* the dict in a chunk file as save_chunk writes it, and with fields missing
ChunkJson(doc_id, chunk_index) ==
    [doc_id |-> doc_id, chunk_index |-> chunk_index, text |-> <<"a">>]
NoIndexJson(doc_id) == [doc_id |-> doc_id, text |-> <<"a">>]
NoTextJson(doc_id, chunk_index) == [doc_id |-> doc_id, chunk_index |-> chunk_index]

ChunkFile(suffix, kind, doc_id, chunk_index) ==
    [suffix |-> suffix,
     readable |-> kind # "unreadable",
     json |-> kind \notin {"unreadable", "badjson"},
     data |-> CASE kind = "nokey" -> NoIndexJson(doc_id)
                [] kind = "notext" -> NoTextJson(doc_id, chunk_index)
                [] OTHER -> ChunkJson(doc_id, chunk_index)]

WellFormedFile(f) ==
    /\ f.readable
    /\ f.json
    /\ {"doc_id", "chunk_index", "text"} \subseteq DOMAIN f.data

\* a folder as ingestion leaves it: chunk_0.json .. chunk_{n-1}.json, listed by
\* the file system in the order of their names as strings, or newest first
LexKey(i) == IF i < 10 THEN 11 * i ELSE 11 * (i \div 10) + (i % 10) + 1
RunFolder(doc_id, n, lex) ==
    LET pos(i) == IF lex THEN 1 + Cardinality({j \in 0..(n - 1) : LexKey(j) < LexKey(i)})
                  ELSE n - i
    IN [p \in 1..n |->
          LET i == CHOOSE i \in 0..(n - 1) : pos(i) = p
          IN ChunkFile(Digits(i), "ok", doc_id, i)]

\* a folder of anything: up to MaxFiles files, in any order
Suffixes == {<<"2">>, <<"1", "0">>, <<"0", "2">>, <<"x">>}
Kinds == {"ok", "unreadable", "badjson", "nokey", "notext"}
AnyFiles ==
    { ChunkFile(sfx, kind, "dX", IF ParseInt(sfx).ok THEN ParseInt(sfx).val ELSE 7) :
        sfx \in Suffixes, kind \in Kinds }
AnyFolders ==
    UNION { { fs \in [1..n -> AnyFiles] :
                \A a, b \in 1..n : a # b => fs[a].suffix # fs[b].suffix } :
              n \in 0..MaxFiles }

NoEntry == [is_dir |-> FALSE, files |-> <<>>]
Dir(fs) == [is_dir |-> TRUE, files |-> fs]

\* chunks directories: absent, or holding a plain file and up to two folders
ChunksDirs ==
    { [exists |-> FALSE, entries |-> [n \in {} |-> NoEntry]] }
      \cup { [exists |-> TRUE, entries |-> [n \in names |->
                  CASE n = "dA" -> Dir(a) [] n = "dB" -> Dir(b) [] OTHER -> NoEntry]] :
               names \in { {"notes.txt"}, {"notes.txt", "dA"}, {"notes.txt", "dA", "dB"} },
               a \in AnyFolders \cup { RunFolder("dA", n, lex) : n \in 1..MaxRun, lex \in BOOLEAN },
               b \in { RunFolder("dB", n, TRUE) : n \in 0..2 } }

NoLoad == [pc |-> "idle", chunks |-> <<>>, sources |-> <<>>]

LoaderInit ==
    /\ chunks_dir \in ChunksDirs
    /\ ld = [NoLoad EXCEPT !.pc = "start"]

\* sorted(doc_folder.glob("chunk_*.json"), key=lambda x: int(x.stem.split("_")[1])):
\* raises where a key does; a stable sort otherwise
SortedFiles(fs) ==
    LET key(i) == ParseInt(fs[i].suffix)
    IN IF \E i \in 1..Len(fs) : ~key(i).ok
       THEN [raised |-> TRUE, files |-> <<>>]
       ELSE LET pos(i) == 1 + Cardinality({j \in 1..Len(fs) :
                                             \/ key(j).val < key(i).val
                                             \/ key(j).val = key(i).val /\ j < i})
            IN [raised |-> FALSE,
                files |-> [p \in 1..Len(fs) |->
                             fs[CHOOSE i \in 1..Len(fs) : pos(i) = p]]]

\* the body of: for chunk_file in chunk_files, with its try/except
RECURSIVE LoadFiles(_, _, _)
LoadFiles(doc_id, chunk_files, acc) ==
    IF chunk_files = <<>> THEN acc
    ELSE LET f == Head(chunk_files)
         IN IF f.readable /\ f.json /\ "chunk_index" \in DOMAIN f.data
            THEN LoadFiles(doc_id, Tail(chunk_files),
                           [chunks |-> Append(acc.chunks,
                                              SetItem(f.data, "chunk_id",
                                                      ChunkId(doc_id, f.data["chunk_index"]))),
                            sources |-> Append(acc.sources, <<doc_id, f.suffix>>)])
            ELSE LoadFiles(doc_id, Tail(chunk_files), acc)

\* the body of: for doc_folder in chunks_path.iterdir()
RECURSIVE LoadFolders(_, _, _)
LoadFolders(entries, order, acc) ==
    IF order = <<>> THEN [raised |-> FALSE, acc |-> acc]
    ELSE LET doc_id == Head(order)
         IN IF ~entries[doc_id].is_dir THEN LoadFolders(entries, Tail(order), acc)
            ELSE LET chunk_files == SortedFiles(entries[doc_id].files)
                 IN IF chunk_files.raised THEN [raised |-> TRUE, acc |-> acc]
                    ELSE LoadFolders(entries, Tail(order),
                                     LoadFiles(doc_id, chunk_files.files, acc))

Orders(names) ==
    { o \in [1..Cardinality(names) -> names] :
        \A a, b \in 1..Cardinality(names) : a # b => o[a] # o[b] }

\* load_chunks(chunks_dir); iterdir lists the entries in any order
LoadChunks ==
    /\ ld.pc = "start"
    /\ IF ~chunks_dir.exists
       THEN ld' = [ld EXCEPT !.pc = "returned"]
       ELSE \E order \in Orders(DOMAIN chunks_dir.entries) :
                LET out == LoadFolders(chunks_dir.entries, order,
                                       [chunks |-> <<>>, sources |-> <<>>])
                IN IF out.raised
                   THEN ld' = [ld EXCEPT !.pc = "raised"]
                   ELSE ld' = [ld EXCEPT !.pc = "returned", !.chunks = out.acc.chunks,
                                         !.sources = out.acc.sources]
    /\ UNCHANGED <<ivars, ch, cvars, chunks_dir>>

----------------------------------------------------------------------------
(* Specifications *)

ChunkerIdle == ch = NoChunking
CliIdle == cli = NoRun /\ storage = NoStorage
LoaderIdle == chunks_dir = [exists |-> FALSE, entries |-> [n \in {} |-> NoEntry]] /\ ld = NoLoad

Init == IndexerInit /\ ChunkerIdle /\ CliIdle /\ LoaderIdle

Next ==
    \/ Construct
    \/ BuildIndex
    \/ SaveIndex
    \/ LoadIndex
    \/ Search
    \/ MutateResult

\* the EmbeddingIndexer: index, persistence and search
Spec == Init /\ [][Next]_vars

InitChunk == IndexerInit /\ ChunkerInit /\ CliIdle /\ LoaderIdle

NextChunk ==
    \/ ExtractPdf
    \/ BuildPageRanges
    \/ ChunkText

\* the chunker
SpecChunk == InitChunk /\ [][NextChunk]_vars

InitIngest == IndexerInit /\ ChunkerIdle /\ CliInit /\ LoaderIdle

NextIngest ==
    \/ CheckPath
    \/ GenerateDocId
    \/ ExtractText
    \/ ExtractTextFails
    \/ BuildRangesCli
    \/ BuildRangesFails
    \/ ChunkTextCli
    \/ ChunkTextFails
    \/ SaveChunk
    \/ SaveChunkFails
    \/ Summary

\* a run of the ingestion CLI
SpecIngest == InitIngest /\ [][NextIngest]_vars

InitLoad == IndexerInit /\ ChunkerIdle /\ CliIdle /\ LoaderInit

NextLoad == LoadChunks

\* a call of load_chunks
SpecLoad == InitLoad /\ [][NextLoad]_vars

InitCrash == Init

NextCrash ==
    \/ Construct
    \/ BuildIndex
    \/ SaveIndex
    \/ SaveIndexFails
    \/ LoadIndex
    \/ LoadIndexFails

\* building, saving and loading, with save_index calls that fail between the
\* two files
SpecCrash == InitCrash /\ [][NextCrash]_vars

----------------------------------------------------------------------------
(* Claims about the EmbeddingIndexer *)

StoredDicts == Deref(heap, chunk_metadata)

\* C1: whenever an index is present, it stores as many vectors as chunk_metadata
\* has entries, and the vector at position i is the normalized embedding of the
\* text of the metadata entry at position i.
C1_IndexAlignedWithMetadata ==
    index.present =>
        /\ Len(index.xb) = Len(chunk_metadata)
        /\ \A i \in 1..Len(chunk_metadata) :
               index.xb[i] = normalize_L2(Encode(StoredDicts[i]["text"]))

C1_Witness ==
    /\ last.op = "load_index"
    /\ last.ret
    /\ Len(index.xb) = 2
    /\ StoredDicts[1]["text"] # StoredDicts[2]["text"]

\* what the claim says search(q, k, filters) may return on the present state
Take(s, n) == SubSeq(s, 1, Min(n, Len(s)))
SearchContract(q, k, filters) ==
    IF ~index.present \/ Len(index.xb) = 0 THEN {<<>>}
    ELSE LET search_k == IF filters.none THEN k ELSE 3 * k
             pass(c) == "doc_id" \in DOMAIN filters.d =>
                            /\ "doc_id" \in DOMAIN StoredDicts[c.idx + 1]
                            /\ StoredDicts[c.idx + 1]["doc_id"] = filters.d["doc_id"]
             entry(c) == SetItem(StoredDicts[c.idx + 1], "score", c.score)
         IN { LET kept == Take(SelectSeq(cands, pass), k)
              IN [i \in 1..Len(kept) |-> entry(kept[i])] :
                cands \in IndexSearch(index.xb, normalize_L2(Encode(q)),
                                      Min(search_k, Len(index.xb))) }

C3_SearchLeavesStateAlone ==
    [][ /\ last'.op \in {"search", "mutate"} =>
              /\ index' = index
              /\ chunk_metadata' = chunk_metadata
              /\ StoredDicts' = StoredDicts
        /\ Range(results') \cap Range(chunk_metadata') = {}
        /\ \A i \in 1..Len(chunk_metadata') : "score" \notin DOMAIN StoredDicts'[i] ]_vars

\* the caller has changed a result of a search that found stored chunks
C3_Witness ==
    /\ last.op = "mutate"
    /\ index.present
    /\ \E r \in 1..Len(results) :
           /\ heap[results[r]]["text"] = "edited"
           /\ \E i \in 1..Len(chunk_metadata) :
                  StoredDicts[i]["chunk_id"] = heap[results[r]]["chunk_id"]

\* C4: load_index on a fresh instance, after a save_index into the same
\* directory, returns true and installs as many vectors and metadata entries as
\* were saved, the entries equal position by position to those at save time.
C4_RoundTrip ==
    (last.op = "load_index" /\ last.fresh /\ saved.done) =>
        /\ last.ret
        /\ index.present
        /\ Len(index.xb) = saved.ntotal
        /\ Len(chunk_metadata) = saved.ntotal
        /\ StoredDicts = saved.meta

C4_Witness ==
    /\ last.op = "load_index"
    /\ last.fresh
    /\ last.ret
    /\ saved.ntotal = 2
    /\ Len(chunk_metadata) = 2

----------------------------------------------------------------------------
(* Claims about the chunker *)

Chunked == ch.pc \in {"chunked", "chunked_pdf"}
WordCount(text) == Len(split_words(text))

\* C5: for chunk_size >= 1 and any overlap, chunk_text terminates and returns
\* the chunks i = 0 .. ceil(n/step)-1, step = max(chunk_size - overlap, 1), chunk
\* i with chunk_index i, start_offset i*step, end_offset min(i*step + chunk_size, n)
\* and the space-joined words[start_offset:end_offset] as text; none for n = 0.
C5_ChunkSequence ==
    /\ ch.pc \in {"text", "ranged"} => ENABLED ChunkText
    /\ (Chunked /\ ch.chunk_size >= 1) =>
        LET words == split_words(ch.text)
            n == Len(words)
            step == IF ch.chunk_size - ch.overlap >= 1 THEN ch.chunk_size - ch.overlap ELSE 1
            count == (n + step - 1) \div step
        IN /\ Len(ch.chunks) = count
           /\ \A i \in 0..(count - 1) :
                  LET c == ch.chunks[i + 1]
                      lo == i * step
                      hi == IF i * step + ch.chunk_size <= n THEN i * step + ch.chunk_size ELSE n
                  IN /\ c.chunk_index = i
                     /\ c.start_offset = lo
                     /\ c.end_offset = hi
                     /\ c.text = Join([j \in 1..(hi - lo) |-> words[lo + j]])

\* overlap >= chunk_size: the step is 1 and the text still gets chunked
C5_Witness ==
    /\ Chunked
    /\ ch.chunk_size >= 1
    /\ ch.overlap >= ch.chunk_size
    /\ Len(ch.chunks) >= 3

\* C6 as stated: every chunk but the final one has exactly chunk_size words
C6_OnlyFinalChunkShorter ==
    (Chunked /\ ch.chunk_size >= 1) =>
        \A i \in 1..(Len(ch.chunks) - 1) :
            /\ ch.chunks[i].end_offset - ch.chunks[i].start_offset = ch.chunk_size
            /\ WordCount(ch.chunks[i].text) = ch.chunk_size

\* C6 amended: every chunk has end_offset - start_offset words, at most
\* chunk_size; it is shorter exactly when start_offset + chunk_size > n, and then
\* ends at n; with overlap <= 0 only the final chunk can be shorter.
C6_ShortChunksAtTail ==
    (Chunked /\ ch.chunk_size >= 1) =>
        LET n == WordCount(ch.text)
        IN \A i \in 1..Len(ch.chunks) :
               LET c == ch.chunks[i]
                   size == c.end_offset - c.start_offset
               IN /\ WordCount(c.text) = size
                  /\ size <= ch.chunk_size
                  /\ size < ch.chunk_size <=> c.start_offset + ch.chunk_size > n
                  /\ size < ch.chunk_size => c.end_offset = n
                  /\ (ch.overlap <= 0 /\ i < Len(ch.chunks)) => size = ch.chunk_size

\* a chunk that is not the final one is shorter than chunk_size
C6_Witness ==
    /\ Chunked
    /\ ch.chunk_size >= 1
    /\ \E i \in 1..(Len(ch.chunks) - 1) :
           ch.chunks[i].end_offset - ch.chunks[i].start_offset < ch.chunk_size

\* the page of the segment that contributed each word of the full text
WordPages(page_texts) ==
    Flatten([p \in 1..Len(page_texts) |->
               [j \in 1..WordCount(page_texts[p].text) |-> page_texts[p].page]])

\* C10: with the text and the page ranges of an extracted PDF, the words of the
\* full text are the pages' words in order and every chunk's page is the page
\* of the segment that contributed the word at its start_offset (found in a
\* range, never by the fallback); without page ranges every page is None.
C10_PageAttribution ==
    /\ ch.pc = "chunked_pdf" =>
          /\ split_words(ch.text) =
                 Flatten([p \in 1..Len(ch.page_texts) |-> split_words(ch.page_texts[p].text)])
          /\ \A i \in 1..Len(ch.chunks) :
                 LET c == ch.chunks[i]
                 IN /\ c.page = Some(WordPages(ch.page_texts)[c.start_offset + 1])
                    /\ ch.page_texts[c.page[1]].text # <<>>
                    /\ \E r \in 1..Len(ch.page_ranges.list) :
                           /\ ch.page_ranges.list[r].start_offset <= c.start_offset
                           /\ c.start_offset < ch.page_ranges.list[r].end_offset
    /\ ch.pc = "chunked" => \A i \in 1..Len(ch.chunks) : ch.chunks[i].page = None

\* a chunk starts on the first word of the page after a page without text
C10_Witness ==
    /\ ch.pc = "chunked_pdf"
    /\ Len(ch.page_texts) = 2
    /\ ch.page_texts[1].text = <<>>
    /\ \E i \in 1..Len(ch.chunks) : ch.chunks[i].page = Some(2)

----------------------------------------------------------------------------
(* Claims about the ingestion CLI *)

ErrorReported ==
    /\ cli.stdout # <<>>
    /\ cli.stdout[Len(cli.stdout)] \in {"[error] File not found", "[error] Extraction failed"}

\* C7: when the input path does not exist, or extraction, page-range building
\* or chunking fails, the run prints an [error] line, exits with status 1 and
\* has written no chunk file; files are written only once extraction and
\* chunking are done, file i holding chunk i, and a finished run has written
\* exactly one file per chunk.
C7_FailureWritesNothing ==
    /\ ( \/ cli.failed \in {"not_found", "extract", "ranges", "chunk"}
         \/ ~cli.file.exists /\ cli.pc \notin {"idle", "start"}
         \/ /\ detect_file_type(cli.file.suffix) = "ValueError"
            /\ cli.pc \notin {"idle", "start", "try", "id"} )
       => /\ cli.pc = "exited"
          /\ cli.exit = Some(1)
          /\ ErrorReported
          /\ storage = NoStorage
    /\ storage # NoStorage => cli.pc \in {"saving", "done", "crashed"}
    /\ \A i \in DOMAIN storage : i < Len(cli.chunks) /\ storage[i] = cli.chunks[i + 1]
    /\ cli.pc = "done" =>
          /\ DOMAIN storage = 0..(Len(cli.chunks) - 1)
          /\ cli.exit = Some(0)

\* chunking failed after a PDF of two pages was extracted
C7_Witness ==
    /\ cli.failed = "chunk"
    /\ cli.pc = "exited"
    /\ Len(cli.page_texts) = 2

----------------------------------------------------------------------------
(* Claims about load_chunks *)

Folders == {d \in DOMAIN chunks_dir.entries : chunks_dir.entries[d].is_dir}

WellFormedSources ==
    UNION { LET fs == chunks_dir.entries[d].files
            IN { <<d, fs[i].suffix>> :
                   i \in { p \in 1..Len(fs) : WellFormedFile(fs[p]) } } :
            d \in Folders }

\* C8: load_chunks never raises; a missing directory gives the empty list; the
\* records returned are those of the well-formed chunk files, each once: the
\* unreadable, unparsable and incomplete files are skipped, the others all returned.
C8_LoadNeverAborts ==
    ld.pc \notin {"idle", "start"} =>
        /\ ld.pc = "returned"
        /\ ~chunks_dir.exists => ld.chunks = <<>>
        /\ \A a, b \in 1..Len(ld.sources) : a # b => ld.sources[a] # ld.sources[b]
        /\ Range(ld.sources) = WellFormedSources

\* a folder holding exactly well-formed chunk_0.json .. chunk_{n-1}.json, n >= 1
IsRun(fs) ==
    /\ Len(fs) >= 1
    /\ {fs[i].suffix : i \in 1..Len(fs)} = {Digits(i) : i \in 0..(Len(fs) - 1)}
    /\ \A i \in 1..Len(fs) : WellFormedFile(fs[i])

\* the records of run folder d stand in the returned list from position o + 1 on,
\* by ascending file number, each with chunk_id <d>_chunk_<its own chunk_index>
RunLoadedAt(d, o) ==
    LET fs == chunks_dir.entries[d].files
    IN /\ o + Len(fs) <= Len(ld.chunks)
       /\ \A i \in 0..(Len(fs) - 1) :
              LET rec == ld.chunks[o + i + 1]
                  f == fs[CHOOSE p \in 1..Len(fs) : fs[p].suffix = Digits(i)]
              IN /\ ld.sources[o + i + 1] = <<d, Digits(i)>>
                 /\ rec = SetItem(f.data, "chunk_id", ChunkId(d, f.data["chunk_index"]))
                 /\ rec["chunk_id"] = ChunkId(d, rec["chunk_index"])

\* C9: for every document folder holding well-formed chunk_0.json ..
\* chunk_{n-1}.json, load_chunks returns that folder's records consecutively, by
\* ascending number in the file name, each with chunk_id
\* "<folder>_chunk_<own chunk_index>".
C9_RunFoldersLoadedInOrder ==
    ld.pc \notin {"idle", "start"} =>
        \A d \in Folders :
            IsRun(chunks_dir.entries[d].files) =>
                \E o \in 0..Len(ld.chunks) : RunLoadedAt(d, o)

\* what does hold of the order: it is as C9 says whenever load_chunks returns
OrderWhenReturned ==
    ld.pc = "returned" =>
        \A d \in Folders :
            IsRun(chunks_dir.entries[d].files) =>
                \E o \in 0..Len(ld.chunks) : RunLoadedAt(d, o)

----------------------------------------------------------------------------
(* Claims about a save_index that fails between its two files *)

\* the vectors that belong to a list of metadata entries
VectorsOf(meta) == [i \in 1..Len(meta) |-> normalize_L2(Encode(meta[i]["text"]))]

\* the last completed save was of an index with its own metadata
SavedAligned == saved.done /\ saved.xb = VectorsOf(saved.meta)

\* metadata.pkl is from a save of an index with its metadata, and faiss.index
\* on disk is another index
PairTorn ==
    /\ files.index.exists
    /\ files.meta.exists
    /\ SavedAligned
    /\ files.index.data # saved.xb

\* a failed save of an index other than the one last saved leaves the pair torn
FailedSaveTearsPair ==
    (last.op = "save_index_failed" /\ SavedAligned /\ index.xb # saved.xb) => PairTorn

\* load_index on a torn pair returns True and installs both files as they are
TornPairInstalled ==
    /\ last.ret
    /\ index = [present |-> TRUE, xb |-> files.index.data]
    /\ StoredDicts = files.meta.data
    /\ StoredDicts = saved.meta

\* C11 as stated: after a save_index that failed between faiss.index and
\* metadata.pkl, over a metadata.pkl of an earlier save of a different index,
\* the pair on disk is inconsistent, and a later load_index returns True and
\* installs an index whose vector count differs from the length of the loaded
\* metadata list.
C11_TornPairCountsDiffer ==
    /\ FailedSaveTearsPair
    /\ (last.op = "load_index" /\ PairTorn) =>
           /\ TornPairInstalled
           /\ Len(index.xb) # Len(chunk_metadata)

\* C11, amended: after such a failed save the pair on disk is inconsistent, and
\* a later load_index returns True and installs the new index beside the old
\* metadata list: the vectors are not those of the metadata entries, and the
\* vector count differs from the length of the metadata list exactly when the
\* two indexes had different sizes.
C11_TornPairLoads ==
    /\ FailedSaveTearsPair
    /\ (last.op = "load_index" /\ PairTorn) =>
           /\ TornPairInstalled
           /\ index.xb # saved.xb
           /\ index.xb # VectorsOf(StoredDicts)
           /\ (Len(index.xb) # Len(chunk_metadata)) <=> (Len(files.index.data) # saved.ntotal)

\* a load of a torn pair that installed one vector beside two metadata entries
C11_Witness ==
    /\ last.op = "load_index"
    /\ PairTorn
    /\ Len(index.xb) = 1
    /\ Len(chunk_metadata) = 2

----------------------------------------------------------------------------
(* Coverage of the text by the chunks *)

\* C12: for a text of n >= 1 words, chunk_size >= 1 and overlap >= 0 the chunks
\* lose no word: the first chunk starts at 0, every next chunk starts at or
\* before the end of the one before it, the last chunk ends at n, and every
\* word index in [0, n) lies in some chunk's [start_offset, end_offset).
C12_NoWordLost ==
    (Chunked /\ WordCount(ch.text) >= 1 /\ ch.chunk_size >= 1 /\ ch.overlap >= 0) =>
        LET n == WordCount(ch.text)
            cs == ch.chunks
        IN /\ Len(cs) >= 1
           /\ cs[1].start_offset = 0
           /\ \A i \in 1..(Len(cs) - 1) : cs[i + 1].start_offset <= cs[i].end_offset
           /\ cs[Len(cs)].end_offset = n
           /\ \A w \in 0..(n - 1) :
                  \E i \in 1..Len(cs) : cs[i].start_offset <= w /\ w < cs[i].end_offset

\* several chunks with a positive overlap, the next starting inside the previous
C12_Witness ==
    /\ Chunked
    /\ ch.chunk_size >= 2
    /\ ch.overlap >= 1
    /\ ch.overlap < ch.chunk_size
    /\ Len(ch.chunks) >= 3
    /\ ch.chunks[2].start_offset < ch.chunks[1].end_offset

====
